---- MODULE Spec2Model ----
(***************************************************************************)
(* Model of the query-trail generation pass of juniper-from-schema         *)
(* (src/ast_pass/code_gen_pass/gen_query_trails.rs) and of the QueryTrail  *)
(* code the pass emits.                                                    *)
(*                                                                         *)
(* Identifiers are sequences of one-character strings, so that the case    *)
(* conversions applied to them (to_snake_case, to_camel_case) are computed *)
(* character by character.  Option<T> is a sequence of length 0 or 1.      *)
(***************************************************************************)
EXTENDS Naturals, Sequences, FiniteSets, TLC

VARIABLES doc, pc, idx, fields_map, tokens, errors,
          first, run, look_ahead_root, trail, last

vars == <<doc, pc, idx, fields_map, tokens, errors,
          first, run, look_ahead_root, trail, last>>

passVars == <<doc, pc, idx, fields_map, tokens, errors>>
rerunVars == <<first, run>>
trailVars == <<look_ahead_root, trail, last>>

(***************************************************************************)
(* Bounds of the enumerated schema documents.                              *)
(***************************************************************************)
MaxMembers == 3
MaxFields == 2

Range(q) == {q[k] : k \in 1..Len(q)}

None == <<>>
Some(x) == <<x>>

(***************************************************************************)
(* Identifiers.                                                            *)
(***************************************************************************)
N_country == <<"c","o","u","n","t","r","y">>
N_userId == <<"u","s","e","r","I","d">>
N_id == <<"i","d">>
T_Country == <<"C","o","u","n","t","r","y">>
T_OtherCountry == <<"O","t","h","e","r","C","o","u","n","t","r","y">>
T_Int == <<"I","n","t">>
T_User == <<"U","s","e","r">>
T_Company == <<"C","o","m","p","a","n","y">>
T_Admin == <<"A","d","m","i","n">>
T_Node == <<"N","o","d","e">>
T_Date == <<"D","a","t","e">>
T_Entity == <<"E","n","t","i","t","y">>

UpperChars == {"A","C","D","E","I","N","O","U"}

ToLower(c) ==
  CASE c = "A" -> "a" [] c = "C" -> "c" [] c = "D" -> "d" [] c = "E" -> "e"
    [] c = "I" -> "i" [] c = "N" -> "n" [] c = "O" -> "o" [] c = "U" -> "u"
    [] OTHER -> c

ToUpper(c) ==
  CASE c = "a" -> "A" [] c = "c" -> "C" [] c = "d" -> "D" [] c = "e" -> "E"
    [] c = "i" -> "I" [] c = "n" -> "N" [] c = "o" -> "O" [] c = "u" -> "U"
    [] OTHER -> c

IsUpper(c) == c \in UpperChars
IsLower(c) == c # "_" /\ c \notin UpperChars

(* Word splitting of the heck crate: "_" separates words, a lowercase      *)
(* letter followed by an uppercase one ends a word, and in a run of        *)
(* uppercase letters followed by a lowercase one the last uppercase letter *)
(* starts a word.                                                          *)
RECURSIVE SplitWords(_, _, _, _, _)
SplitWords(s, i, cur, acc, mode) ==
  LET flush(w) == IF w = <<>> THEN acc ELSE Append(acc, w)
  IN IF i > Len(s) THEN flush(cur)
     ELSE LET c == s[i] IN
       IF c = "_" THEN SplitWords(s, i + 1, <<>>, flush(cur), "Boundary")
       ELSE IF i = Len(s) THEN flush(Append(cur, c))
       ELSE LET next == s[i + 1]
                next_mode == IF IsLower(c) THEN "Lowercase"
                             ELSE IF IsUpper(c) THEN "Uppercase" ELSE mode
            IN IF next = "_" \/ (next_mode = "Lowercase" /\ IsUpper(next))
               THEN SplitWords(s, i + 1, <<>>, flush(Append(cur, c)), "Boundary")
               ELSE IF mode = "Uppercase" /\ IsUpper(c) /\ IsLower(next)
               THEN SplitWords(s, i + 1, <<c>>, flush(cur), "Boundary")
               ELSE SplitWords(s, i + 1, Append(cur, c), acc, next_mode)

Lowercase(w) == [k \in 1..Len(w) |-> ToLower(w[k])]
Capitalize(w) == [k \in 1..Len(w) |-> IF k = 1 THEN ToUpper(w[k]) ELSE ToLower(w[k])]

RECURSIVE JoinWords(_, _, _)
JoinWords(ws, k, sep) ==
  IF k > Len(ws) THEN <<>>
  ELSE IF k = Len(ws) THEN ws[k]
  ELSE ws[k] \o sep \o JoinWords(ws, k + 1, sep)

to_snake_case(s) ==
  LET ws == SplitWords(s, 1, <<>>, <<>>, "Boundary")
  IN JoinWords([k \in 1..Len(ws) |-> Lowercase(ws[k])], 1, <<"_">>)

to_camel_case(s) ==
  LET ws == SplitWords(s, 1, <<>>, <<>>, "Boundary")
  IN JoinWords([k \in 1..Len(ws) |-> Capitalize(ws[k])], 1, <<>>)

(***************************************************************************)
(* Type references: a named type under nullability and list wrappers.      *)
(***************************************************************************)
NamedType(n) == [tag |-> "NamedType", name |-> n]
NonNullType(t) == [tag |-> "NonNullType", of |-> <<t>>]
ListType(t) == [tag |-> "ListType", of |-> <<t>>]

RECURSIVE type_name(_)
type_name(t) == IF t.tag = "NamedType" THEN t.name ELSE type_name(t.of[1])

BuiltinScalars == {T_Int}

Field(n, t) == [name |-> n, field_type |-> t]

(***************************************************************************)
(* Schema documents.  A definition is an object, an interface, a union or  *)
(* a definition of another kind (here a scalar); position is its place in  *)
(* the source text.                                                        *)
(***************************************************************************)
ObjectType(n, fs) == [kind |-> "Object", name |-> n, fields |-> fs, types |-> <<>>, position |-> 0]
InterfaceType(n, fs) == [kind |-> "Interface", name |-> n, fields |-> fs, types |-> <<>>, position |-> 0]
UnionType(n, ts) == [kind |-> "Union", name |-> n, fields |-> <<>>, types |-> ts, position |-> 0]
ScalarType(n) == [kind |-> "Scalar", name |-> n, fields |-> <<>>, types |-> <<>>, position |-> 0]

Positioned(defs) == [k \in 1..Len(defs) |-> [defs[k] EXCEPT !.position = k]]

InsertAt(defs, k, d) == SubSeq(defs, 1, k - 1) \o <<d>> \o SubSeq(defs, k, Len(defs))

(***************************************************************************)
(* build_fields_map: object-type name -> its fields, in document order.    *)
(* An entry exists only once a field has been pushed for the name.         *)
(***************************************************************************)
EmptyMap == <<>>

PushField(map, name, field) ==
  [n \in (DOMAIN map) \cup {name} |->
     IF n = name
     THEN (IF n \in DOMAIN map THEN Append(map[n], field) ELSE <<field>>)
     ELSE map[n]]

RECURSIVE PushFields(_, _, _, _)
PushFields(map, name, fs, k) ==
  IF k > Len(fs) THEN map
  ELSE PushFields(PushField(map, name, fs[k]), name, fs, k + 1)

RECURSIVE BuildFieldsMapFrom(_, _, _)
BuildFieldsMapFrom(d, k, map) ==
  IF k > Len(d) THEN map
  ELSE IF d[k].kind = "Object"
       THEN BuildFieldsMapFrom(d, k + 1, PushFields(map, d[k].name, d[k].fields, 1))
       ELSE BuildFieldsMapFrom(d, k + 1, map)

build_fields_map(d) == BuildFieldsMapFrom(d, 1, EmptyMap)

(* The (member type, field) pairs visited by the loops over union.types    *)
(* and the member's indexed fields; a member without an entry is skipped.  *)
RECURSIVE MemberFields(_, _, _)
MemberFields(types, fm, k) ==
  IF k > Len(types) THEN <<>>
  ELSE (IF types[k] \in DOMAIN fm
        THEN [j \in 1..Len(fm[types[k]]) |-> [owner |-> types[k], field |-> fm[types[k]][j]]]
        ELSE <<>>)
       \o MemberFields(types, fm, k + 1)

(***************************************************************************)
(* error_msg_if_field_types_dont_overlap: the diagnostics one union adds.  *)
(***************************************************************************)
UnionFieldTypeMismatch(union, field_name, type_a, type_b, field_type_a, field_type_b) ==
  [position |-> union.position, union_name |-> union.name, field_name |-> field_name,
   type_a |-> type_a, type_b |-> type_b,
   field_type_a |-> field_type_a, field_type_b |-> field_type_b]

(* Variant: the rolling entry keeps the first declaration seen.             *)
PrevInsert_keep_first(prev, name, entry) ==
  IF name \in DOMAIN prev THEN prev
  ELSE [n \in (DOMAIN prev) \cup {name} |-> IF n = name THEN entry ELSE prev[n]]

PrevInsert(prev, name, entry) ==
  [n \in (DOMAIN prev) \cup {name} |-> IF n = name THEN entry ELSE prev[n]]

(* Variant: the scan compares the wrapped type references, not their names. *)
RECURSIVE ScanOverlap_wrapped(_, _, _, _, _)
ScanOverlap_wrapped(union, visited, k, prev, errs) ==
  IF k > Len(visited) THEN errs
  ELSE LET type_b == visited[k].owner
           field == visited[k].field
           field_type_b == field.field_type
           found == IF field.name \in DOMAIN prev
                       /\ field_type_b # prev[field.name][2]
                    THEN {UnionFieldTypeMismatch(union, field.name, prev[field.name][1],
                                                 type_b, type_name(prev[field.name][2]),
                                                 type_name(field_type_b))}
                    ELSE {}
       IN ScanOverlap_wrapped(union, visited, k + 1,
                              [n \in (DOMAIN prev) \cup {field.name} |->
                                 IF n = field.name THEN <<type_b, field_type_b>> ELSE prev[n]],
                              errs \cup found)

RECURSIVE ScanOverlap(_, _, _, _, _)
ScanOverlap(union, visited, k, prev, errs) ==
  IF k > Len(visited) THEN errs
  ELSE LET type_b == visited[k].owner
           field == visited[k].field
           field_type_b == type_name(field.field_type)
           found == IF field.name \in DOMAIN prev
                       /\ field_type_b # prev[field.name][2]
                    THEN {UnionFieldTypeMismatch(union, field.name, prev[field.name][1],
                                                 type_b, prev[field.name][2], field_type_b)}
                    ELSE {}
       IN ScanOverlap(union, visited, k + 1,
                      PrevInsert(prev, field.name, <<type_b, field_type_b>>),
                      errs \cup found)

(* Variant: the rolling map is created anew for each member type.           *)
error_msg_prev_per_member(union, fm) ==
  UNION {ScanOverlap(union, MemberFields(<<union.types[k]>>, fm, 1), 1, EmptyMap, {}) :
           k \in 1..Len(union.types)}

error_msg_if_field_types_dont_overlap(union, fm) ==
  ScanOverlap(union, MemberFields(union.types, fm, 1), 1, EmptyMap, {})

(***************************************************************************)
(* build_union_fields_set: a hash set of fields whose equality and hash    *)
(* look at the name only; inserting a present name keeps the old element.  *)
(***************************************************************************)
HashFieldByName_eq(a, b) == a.name = b.name

(* Variant: equality on the whole field, so same-named fields coexist.      *)
HashSetInsert_whole_field(set, field) == set \cup {field}

(* Variant: a later same-named field replaces the one in the set.           *)
HashSetInsert_replace(set, field) ==
  {g \in set : ~HashFieldByName_eq(g, field)} \cup {field}

HashSetInsert(set, field) ==
  IF \E g \in set : HashFieldByName_eq(g, field) THEN set ELSE set \cup {field}

RECURSIVE InsertAll(_, _, _)
InsertAll(set, visited, k) ==
  IF k > Len(visited) THEN set
  ELSE InsertAll(HashSetInsert(set, visited[k].field), visited, k + 1)

build_union_fields_set(union, fm) == InsertAll({}, MemberFields(union.types, fm, 1), 1)

(***************************************************************************)
(* InternalQueryTrailNode and its fields(): the vectors the call can       *)
(* return.  A hash set iterates in an unspecified order.                   *)
(***************************************************************************)
Orderings(S) ==
  {f \in [1..Cardinality(S) -> S] : \A a, b \in 1..Cardinality(S) : a # b => f[a] # f[b]}

NodeObject(obj) == [variant |-> "Object", inner |-> obj, set |-> {}]
NodeInterface(interface) == [variant |-> "Interface", inner |-> interface, set |-> {}]
NodeUnion(union, set) == [variant |-> "Union", inner |-> union, set |-> set]

node_name(node) == node.inner.name

(* Variant: every node hands out its fields in an unspecified order.        *)
fields_any_order(node) ==
  IF node.variant = "Union" THEN Orderings(node.set) ELSE Orderings(Range(node.inner.fields))

fields(node) ==
  IF node.variant = "Union" THEN Orderings(node.set) ELSE {node.inner.fields}

(***************************************************************************)
(* gen_field_walk_method / gen_field_walk_methods: the emitted accessors.  *)
(***************************************************************************)
graphql_scalar_type_to_rust_type(tn, d) ==
  IF tn \in BuiltinScalars \/ (\E k \in 1..Len(d) : d[k].kind = "Scalar" /\ d[k].name = tn)
  THEN "Scalar" ELSE "Type"

gen_field_walk_method(field, d) ==
  LET field_type == type_name(field.field_type)
      ty == graphql_scalar_type_to_rust_type(field_type, d)
  IN IF ty = "Scalar"
     THEN [name |-> to_snake_case(field.name), string_name |-> field.name,
           returns |-> "bool", target |-> <<>>]
     ELSE [name |-> to_snake_case(field.name), string_name |-> field.name,
           returns |-> "QueryTrail", target |-> to_camel_case(field_type)]

gen_field_walk_methods(name, fs, d) ==
  [item |-> "impl", name |-> name,
   methods |-> [k \in 1..Len(fs) |-> gen_field_walk_method(fs[k], d)]]

gen_query_trail == [item |-> "QueryTrail", name |-> <<>>, methods |-> <<>>]

(***************************************************************************)
(* The documents the pass is run on: three object types, an interface, a   *)
(* scalar and one union over them, defined after the first object type.    *)
(***************************************************************************)
FieldPool ==
  { Field(N_country, NonNullType(NamedType(T_Country))),
    Field(N_country, NonNullType(NamedType(T_OtherCountry))),
    Field(N_userId, NonNullType(NamedType(T_Int))) }

AdminFieldPool ==
  { Field(N_country, NamedType(T_Country)),
    Field(N_country, ListType(NonNullType(NamedType(T_OtherCountry)))) }

SeqsUpTo(S, n) == UNION {[1..m -> S] : m \in 0..n}

Injective(q) == \A a, b \in 1..Len(q) : a # b => q[a] # q[b]

(* Field names are unique within a type; member types within a union.      *)
FieldLists(pool) ==
  {fs \in SeqsUpTo(pool, MaxFields) : Injective([k \in 1..Len(fs) |-> fs[k].name])}

MemberNames == {T_User, T_Company, T_Admin, T_Node}

MemberLists == {ts \in SeqsUpTo(MemberNames, MaxMembers) : Len(ts) >= 1 /\ Injective(ts)}

NodeFields ==
  << Field(N_id, NonNullType(NamedType(T_Int))),
     Field(N_country, NamedType(T_Date)) >>

BaseDefs(fu, fc, fa) ==
  << ObjectType(T_User, fu), ObjectType(T_Company, fc), ObjectType(T_Admin, fa),
     InterfaceType(T_Node, NodeFields), ScalarType(T_Date) >>

Docs ==
  { Positioned(InsertAt(BaseDefs(fu, fc, fa), 2, UnionType(T_Entity, ts))) :
      fu \in FieldLists(FieldPool), fc \in FieldLists(FieldPool),
      fa \in FieldLists(AdminFieldPool), ts \in MemberLists }

(***************************************************************************)
(* gen_query_trails, one step per definition of the document.              *)
(***************************************************************************)
Init ==
  /\ doc \in Docs
  /\ pc = "start"
  /\ idx = 0
  /\ fields_map = EmptyMap
  /\ tokens = <<>>
  /\ errors = {}
  /\ first = None
  /\ run = 1
  /\ look_ahead_root = {}
  /\ trail = None
  /\ last = None

Begin ==
  /\ pc = "start"
  /\ tokens' = <<gen_query_trail>>
  /\ fields_map' = build_fields_map(doc)
  /\ idx' = 1
  /\ pc' = "visit"
  /\ UNCHANGED <<doc, errors, rerunVars, trailVars>>

VisitObject ==
  /\ pc = "visit" /\ idx <= Len(doc)
  /\ doc[idx].kind = "Object"
  /\ \E fs \in fields(NodeObject(doc[idx])) :
       tokens' = Append(tokens, gen_field_walk_methods(node_name(NodeObject(doc[idx])), fs, doc))
  /\ idx' = idx + 1
  /\ UNCHANGED <<doc, pc, fields_map, errors, rerunVars, trailVars>>

VisitInterface ==
  /\ pc = "visit" /\ idx <= Len(doc)
  /\ doc[idx].kind = "Interface"
  /\ \E fs \in fields(NodeInterface(doc[idx])) :
       tokens' = Append(tokens, gen_field_walk_methods(node_name(NodeInterface(doc[idx])), fs, doc))
  /\ idx' = idx + 1
  /\ UNCHANGED <<doc, pc, fields_map, errors, rerunVars, trailVars>>

(* Variant: the union is resolved against the index of the definitions     *)
(* read so far.                                                             *)
VisitUnion_prefix_index ==
  /\ pc = "visit" /\ idx <= Len(doc)
  /\ doc[idx].kind = "Union"
  /\ LET seen == build_fields_map(SubSeq(doc, 1, idx))
         node == NodeUnion(doc[idx], build_union_fields_set(doc[idx], seen))
     IN /\ errors' = errors \cup error_msg_if_field_types_dont_overlap(doc[idx], seen)
        /\ \E fs \in fields(node) :
             tokens' = Append(tokens, gen_field_walk_methods(node_name(node), fs, doc))
  /\ idx' = idx + 1
  /\ UNCHANGED <<doc, pc, fields_map, rerunVars, trailVars>>

(* Variant: a union with a mismatch ends the pass.                          *)
VisitUnion_abort ==
  /\ pc = "visit" /\ idx <= Len(doc)
  /\ doc[idx].kind = "Union"
  /\ errors' = errors \cup error_msg_if_field_types_dont_overlap(doc[idx], fields_map)
  /\ LET node == NodeUnion(doc[idx], build_union_fields_set(doc[idx], fields_map))
     IN \E fs \in fields(node) :
          tokens' = Append(tokens, gen_field_walk_methods(node_name(node), fs, doc))
  /\ idx' = idx + 1
  /\ pc' = IF errors' = {} THEN pc ELSE "done"
  /\ UNCHANGED <<doc, fields_map, rerunVars, trailVars>>

VisitUnion ==
  /\ pc = "visit" /\ idx <= Len(doc)
  /\ doc[idx].kind = "Union"
  /\ errors' = errors \cup error_msg_if_field_types_dont_overlap(doc[idx], fields_map)
  /\ LET node == NodeUnion(doc[idx], build_union_fields_set(doc[idx], fields_map))
     IN \E fs \in fields(node) :
          tokens' = Append(tokens, gen_field_walk_methods(node_name(node), fs, doc))
  /\ idx' = idx + 1
  /\ UNCHANGED <<doc, pc, fields_map, rerunVars, trailVars>>

VisitOther ==
  /\ pc = "visit" /\ idx <= Len(doc)
  /\ doc[idx].kind \notin {"Object", "Interface", "Union"}
  /\ idx' = idx + 1
  /\ UNCHANGED <<doc, pc, fields_map, tokens, errors, rerunVars, trailVars>>

Finish ==
  /\ pc = "visit" /\ idx > Len(doc)
  /\ pc' = "done"
  /\ UNCHANGED <<doc, idx, fields_map, tokens, errors, rerunVars, trailVars>>

Next == Begin \/ VisitObject \/ VisitInterface \/ VisitUnion \/ VisitOther \/ Finish

Spec == Init /\ [][Next]_vars

(***************************************************************************)
(* The emitted QueryTrail code at run time.  The incoming selection is the  *)
(* prefix-closed set of selected paths below the root; a look-ahead link is *)
(* a path of it.                                                            *)
(***************************************************************************)
MaxSelected == 3

N_user == <<"u","s","e","r">>

SelectionNames == {N_userId, N_country, N_user}

RECURSIVE Selections(_)
Selections(n) ==
  IF n = 0 THEN {{}}
  ELSE LET smaller == Selections(n - 1)
       IN smaller \cup UNION {{sel \cup {Append(p, x)} : p \in sel \cup {<<>>}, x \in SelectionNames} :
                                 sel \in smaller}

select_child(root, la, name) ==
  IF Append(la, name) \in root THEN Some(Append(la, name)) ELSE None

QueryTrail(look_ahead, node_type, walked) ==
  [look_ahead |-> look_ahead, node_type |-> node_type, walked |-> walked]

make_query_trail(node_type) == QueryTrail(Some(<<>>), node_type, "Walked")

(* Variant: walk hands out a walked trail whatever the link.                *)
walk_always(self) == Some(QueryTrail(self.look_ahead, self.node_type, "Walked"))

walk(self) ==
  IF self.look_ahead # None
  THEN Some(QueryTrail(Some(self.look_ahead[1]), self.node_type, "Walked"))
  ELSE None

and_then_select_child(root, look_ahead, string_name) ==
  IF look_ahead = None THEN None ELSE select_child(root, look_ahead[1], string_name)

scalar_accessor(root, self, method) ==
  and_then_select_child(root, self.look_ahead, method.string_name) # None

composite_accessor(root, self, method) ==
  QueryTrail(and_then_select_child(root, self.look_ahead, method.string_name),
             method.target, "NotWalked")

(* The accessors the emitted impl blocks give a trail of the node type.     *)
MethodsOf(node_type) ==
  UNION {Range(tokens[k].methods) : k \in {j \in 1..Len(tokens) :
                                            tokens[j].item = "impl" /\ tokens[j].name = node_type}}

ImplNames == {tokens[k].name : k \in {j \in 1..Len(tokens) : tokens[j].item = "impl"}}

MakeQueryTrail ==
  /\ pc = "done"
  /\ trail = None /\ last = None
  /\ \E sel \in Selections(MaxSelected) : look_ahead_root' = sel
  /\ \E node_type \in ImplNames : trail' = Some(make_query_trail(node_type))
  /\ last' = None
  /\ UNCHANGED <<passVars, rerunVars>>

Walk ==
  /\ trail # None
  /\ trail[1].walked = "NotWalked"
  /\ trail' = walk(trail[1])
  /\ last' = Some([op |-> "walk", on |-> trail[1], name |-> <<>>, ret |-> walk(trail[1])])
  /\ UNCHANGED <<passVars, rerunVars, look_ahead_root>>

CallScalar ==
  /\ trail # None
  /\ \E method \in MethodsOf(trail[1].node_type) :
       /\ method.returns = "bool"
       /\ last' = Some([op |-> "scalar", on |-> trail[1], name |-> method.name,
                        ret |-> scalar_accessor(look_ahead_root, trail[1], method)])
  /\ UNCHANGED <<passVars, rerunVars, look_ahead_root, trail>>

CallComposite ==
  /\ trail # None
  /\ \E method \in MethodsOf(trail[1].node_type) :
       /\ method.returns = "QueryTrail"
       /\ trail' = Some(composite_accessor(look_ahead_root, trail[1], method))
       /\ last' = Some([op |-> "composite", on |-> trail[1], name |-> method.name,
                        ret |-> composite_accessor(look_ahead_root, trail[1], method)])
  /\ UNCHANGED <<passVars, rerunVars, look_ahead_root>>

TrailDocs ==
  { Positioned(<< ObjectType(T_User, << Field(N_userId, NonNullType(NamedType(T_Int))),
                                        Field(N_country, NonNullType(NamedType(T_Country))) >>),
                  UnionType(T_Entity, <<T_User, T_Company>>),
                  ObjectType(T_Company, << Field(N_country, NamedType(c)) >>),
                  ObjectType(T_Country, << Field(N_id, NonNullType(NamedType(T_Int))),
                                           Field(N_user, ListType(NamedType(T_User))) >>),
                  InterfaceType(T_Node, NodeFields),
                  ScalarType(T_Date) >>) : c \in {T_Country, T_Date} }

InitTrail ==
  /\ doc \in TrailDocs
  /\ pc = "start"
  /\ idx = 0
  /\ fields_map = EmptyMap
  /\ tokens = <<>>
  /\ errors = {}
  /\ first = None
  /\ run = 1
  /\ look_ahead_root = {}
  /\ trail = None
  /\ last = None

NextTrail == Next \/ MakeQueryTrail \/ Walk \/ CallScalar \/ CallComposite

SpecTrail == InitTrail /\ [][NextTrail]_vars

(***************************************************************************)
(* A second run of the pass, by a fresh pass instance, on the same document *)
(* or on the document with its union definition moved to another place.     *)
(***************************************************************************)
RerunBaseDefs(fu, fc) ==
  << ObjectType(T_User, fu), ObjectType(T_Company, fc),
     InterfaceType(T_Node, NodeFields), ScalarType(T_Date) >>

RerunMemberLists == {ts \in MemberLists : T_Admin \notin Range(ts)}

UnionPlaces == {1, 2, 5}

RerunDocs ==
  { Positioned(InsertAt(RerunBaseDefs(fu, fc), place, UnionType(T_Entity, ts))) :
      fu \in FieldLists(FieldPool), fc \in FieldLists(AdminFieldPool),
      ts \in RerunMemberLists, place \in UnionPlaces }

WithoutUnion(d) == SelectSeq(d, LAMBDA def : def.kind # "Union")

TheUnion(d) == [(CHOOSE def \in Range(d) : def.kind = "Union") EXCEPT !.position = 0]

InitRerun ==
  /\ doc \in RerunDocs
  /\ pc = "start"
  /\ idx = 0
  /\ fields_map = EmptyMap
  /\ tokens = <<>>
  /\ errors = {}
  /\ first = None
  /\ run = 1
  /\ look_ahead_root = {}
  /\ trail = None
  /\ last = None

RerunSame ==
  /\ pc = "done" /\ run = 1
  /\ first' = Some([doc |-> doc, tokens |-> tokens, errors |-> errors, moved |-> FALSE])
  /\ run' = 2
  /\ pc' = "start" /\ idx' = 0 /\ fields_map' = EmptyMap /\ tokens' = <<>> /\ errors' = {}
  /\ UNCHANGED <<doc, trailVars>>

RerunMoved ==
  /\ pc = "done" /\ run = 1
  /\ \E place \in UnionPlaces :
       /\ doc[place].kind # "Union"
       /\ doc' = Positioned(InsertAt(WithoutUnion(doc), place, TheUnion(doc)))
  /\ first' = Some([doc |-> doc, tokens |-> tokens, errors |-> errors, moved |-> TRUE])
  /\ run' = 2
  /\ pc' = "start" /\ idx' = 0 /\ fields_map' = EmptyMap /\ tokens' = <<>> /\ errors' = {}
  /\ UNCHANGED trailVars

NextRerun == Next \/ RerunSame \/ RerunMoved

SpecRerun == InitRerun /\ [][NextRerun]_vars

(***************************************************************************)
(* Vocabulary of the properties, stated on the document itself.            *)
(***************************************************************************)
TrailKinds == {"Object", "Interface", "Union"}

DefsOfKind(kind) == {k \in 1..Len(doc) : doc[k].kind = kind}

(* Definition k has just been visited, or the pass has ended.              *)
Processed(k) == pc = "done" \/ (pc = "visit" /\ k = idx - 1)

(* The companion type emitted for definition k.                            *)
ImplOf(k) == tokens[1 + Cardinality({j \in 1..k : doc[j].kind \in TrailKinds})]

(* Occurrences <<k, j>> of a field named f in a definition named n of the   *)
(* given kinds.                                                            *)
Occurrences(n, f, kinds) ==
  {o \in (1..Len(doc)) \X (1..MaxFields + 1) :
     /\ doc[o[1]].kind \in kinds /\ doc[o[1]].name = n
     /\ o[2] <= Len(doc[o[1]].fields)
     /\ doc[o[1]].fields[o[2]].name = f}

TargetAt(o) == type_name(doc[o[1]].fields[o[2]].field_type)

ObjectTargets(n, f) == {TargetAt(o) : o \in Occurrences(n, f, {"Object"})}

AllFieldNames == {N_country, N_userId, N_id}

ErrorsFor(k, f) ==
  {e \in errors : e.position = doc[k].position /\ e.union_name = doc[k].name /\ e.field_name = f}

AccessorsFor(k, f) ==
  {j \in 1..Len(ImplOf(k).methods) : ImplOf(k).methods[j].string_name = f}

AccessorNames(k) == {ImplOf(k).methods[j].string_name : j \in 1..Len(ImplOf(k).methods)}

(* C1: whenever two member object types of a processed union declare the    *)
(* same field name with different target type names, the diagnostic set     *)
(* holds a UnionFieldTypeMismatch for that union and field.                 *)
C1_MismatchFlagged ==
  \A k \in DefsOfKind("Union") : Processed(k) =>
    \A f \in AllFieldNames : \A m1, m2 \in Range(doc[k].types) :
      ((/\ m1 # m2
        /\ \E t1 \in ObjectTargets(m1, f) : \E t2 \in ObjectTargets(m2, f) : t1 # t2)
       => ErrorsFor(k, f) # {})

(* Three members declare country as Country, OtherCountry, Country: the    *)
(* agreeing members sit around the disagreeing one.                         *)
C1_Witness ==
  /\ pc = "done"
  /\ \E k \in DefsOfKind("Union") :
       /\ doc[k].types = <<T_User, T_Company, T_Admin>>
       /\ ObjectTargets(T_User, N_country) = {T_Country}
       /\ ObjectTargets(T_Company, N_country) = {T_OtherCountry}
       /\ ObjectTargets(T_Admin, N_country) = {T_Country}
       /\ ErrorsFor(k, N_country) # {}

(* The members of union k that declare f, in declaration order, under the   *)
(* precondition that each declares it once.                                 *)
Declaring(k, f) == SelectSeq(doc[k].types, LAMBDA m : ObjectTargets(m, f) # {})

TargetOf(m, f) == CHOOSE t \in ObjectTargets(m, f) : TRUE

DifferingPairs(k, f) ==
  {j \in 1..(Len(Declaring(k, f)) - 1) :
     TargetOf(Declaring(k, f)[j], f) # TargetOf(Declaring(k, f)[j + 1], f)}

PairDiagnostic(k, f, j) ==
  UnionFieldTypeMismatch(doc[k], f, Declaring(k, f)[j], Declaring(k, f)[j + 1],
                         TargetOf(Declaring(k, f)[j], f), TargetOf(Declaring(k, f)[j + 1], f))

DistinctObjectMembers(k, f) ==
  /\ Injective(doc[k].types)
  /\ \A m \in Range(doc[k].types) :
       /\ \E d \in DefsOfKind("Object") : doc[d].name = m
       /\ Cardinality(Occurrences(m, f, {"Object"})) <= 1

(* C2: for a union of distinct object types each declaring f at most once,  *)
(* the diagnostics for f are exactly one per consecutive pair of declaring  *)
(* members whose targets differ, naming the earlier member as type_a and    *)
(* the later as type_b.                                                     *)
C2_ConsecutivePairs ==
  \A k \in DefsOfKind("Union") : Processed(k) =>
    \A f \in AllFieldNames :
      (DistinctObjectMembers(k, f) =>
         /\ ErrorsFor(k, f) = {PairDiagnostic(k, f, j) : j \in DifferingPairs(k, f)}
         /\ Cardinality(ErrorsFor(k, f)) = Cardinality(DifferingPairs(k, f)))

(* Three members of which only the second and third conflict: exactly one   *)
(* diagnostic.                                                              *)
C2_Witness ==
  /\ pc = "done"
  /\ \E k \in DefsOfKind("Union") :
       /\ DistinctObjectMembers(k, N_country)
       /\ Len(Declaring(k, N_country)) = 3
       /\ DifferingPairs(k, N_country) = {2}
       /\ Cardinality(errors) = 1

IndexedTargets(k, f) == UNION {ObjectTargets(m, f) : m \in Range(doc[k].types)}

(* C3: a processed union whose indexed members agree on the target of every *)
(* field name has no diagnostic and exactly one accessor per shared name.   *)
C3_AgreementIsSilent ==
  \A k \in DefsOfKind("Union") : Processed(k) =>
    ((\A f \in AllFieldNames : Cardinality(IndexedTargets(k, f)) <= 1) =>
      /\ \A f \in AllFieldNames : ErrorsFor(k, f) = {}
      /\ \A f \in AllFieldNames :
           IndexedTargets(k, f) # {} => Cardinality(AccessorsFor(k, f)) = 1)

(* Two members declare country with the same target name under different   *)
(* wrappers.                                                                *)
C3_Witness ==
  /\ pc = "done"
  /\ \E k \in DefsOfKind("Union") :
       /\ Len(Declaring(k, N_country)) >= 2
       /\ \A f \in AllFieldNames : Cardinality(IndexedTargets(k, f)) <= 1
       /\ \E o1 \in Occurrences(T_User, N_country, {"Object"}) :
          \E o2 \in Occurrences(T_Admin, N_country, {"Object"}) :
            doc[o1[1]].fields[o1[2]].field_type # doc[o2[1]].fields[o2[2]].field_type
       /\ {T_User, T_Admin} \subseteq Range(doc[k].types)
       /\ errors = {}
       /\ Cardinality(AccessorsFor(k, N_country)) = 1

DeclaredNames(n, kinds) == {f \in AllFieldNames : Occurrences(n, f, kinds) # {}}

OneAccessorPerName(k) ==
  \A f \in AccessorNames(k) : Cardinality(AccessorsFor(k, f)) = 1

(* C4 as stated: the accessor names of a union are the field names declared *)
(* by all of its member types, one accessor per name.                       *)
C4_AllMembersNames ==
  \A k \in DefsOfKind("Union") : Processed(k) =>
    /\ AccessorNames(k) =
         UNION {DeclaredNames(m, {"Object", "Interface"}) : m \in Range(doc[k].types)}
    /\ OneAccessorPerName(k)

(* C4 amended: the accessor names of a union are the field names declared   *)
(* by its member types that are object types, one accessor per name,        *)
(* whether or not diagnostics were recorded.                                *)
C4_ObjectMembersNames ==
  \A k \in DefsOfKind("Union") : Processed(k) =>
    /\ AccessorNames(k) = UNION {DeclaredNames(m, {"Object"}) : m \in Range(doc[k].types)}
    /\ OneAccessorPerName(k)

(* A union with diagnostics over two objects and the interface.            *)
C4_Witness ==
  /\ pc = "done"
  /\ \E k \in DefsOfKind("Union") :
       /\ T_Node \in Range(doc[k].types)
       /\ errors # {}
       /\ AccessorNames(k) = {N_country, N_userId}
       /\ Len(ImplOf(k).methods) = 2

(* C5: the companion type of an object or interface has one accessor per    *)
(* declared field, in declaration order, under the field's normalized name. *)
C5_DeclaredOrder ==
  \A k \in DefsOfKind("Object") \cup DefsOfKind("Interface") : Processed(k) =>
    /\ ImplOf(k).name = doc[k].name
    /\ Len(ImplOf(k).methods) = Len(doc[k].fields)
    /\ \A j \in 1..Len(doc[k].fields) :
         /\ ImplOf(k).methods[j].string_name = doc[k].fields[j].name
         /\ ImplOf(k).methods[j].name = to_snake_case(doc[k].fields[j].name)

(* An object declaring userId then country gets user_id then country.       *)
C5_Witness ==
  /\ pc = "done"
  /\ \E k \in DefsOfKind("Object") :
       /\ Len(doc[k].fields) = 2
       /\ doc[k].fields[1].name = N_userId
       /\ ImplOf(k).methods[1].name = <<"u","s","e","r","_","i","d">>
       /\ ImplOf(k).methods[2].name = N_country

TrailDefs == SelectSeq([k \in 1..Len(doc) |-> k], LAMBDA k : doc[k].kind \in TrailKinds)

PassComplete ==
  pc = "done" =>
    /\ idx = Len(doc) + 1
    /\ Len(tokens) = 1 + Len(TrailDefs)
    /\ \A j \in 1..Len(TrailDefs) :
         tokens[j + 1].item = "impl" /\ tokens[j + 1].name = doc[TrailDefs[j]].name

(* C6: diagnostics never stop the pass: it ends only after the last         *)
(* definition, with one companion type per object, interface and union in   *)
(* document order, and no step removes a diagnostic.                        *)
C6_NonFatalAccumulative == [](PassComplete) /\ [][errors \subseteq errors']_vars

(* The pass has ended with diagnostics and the definitions after the union  *)
(* have their companion types.                                              *)
C6_Witness ==
  /\ pc = "done"
  /\ Cardinality(errors) >= 2
  /\ \E k \in DefsOfKind("Union") : k < Len(doc)
  /\ Len(tokens) = 1 + Len(TrailDefs)

(* The first declaration of f among the members of union k: the earliest    *)
(* member with an object declaration of f, and its first such field.        *)
FirstDeclaringMember(k, f) ==
  LET at == CHOOSE a \in 1..Len(doc[k].types) :
              /\ ObjectTargets(doc[k].types[a], f) # {}
              /\ \A b \in 1..(a - 1) : ObjectTargets(doc[k].types[b], f) = {}
  IN doc[k].types[at]

FirstDeclaration(k, f) ==
  LET occ == Occurrences(FirstDeclaringMember(k, f), f, {"Object"})
      o == CHOOSE a \in occ : \A b \in occ : a[1] < b[1] \/ (a[1] = b[1] /\ a[2] <= b[2])
  IN doc[o[1]].fields[o[2]]

(* C9: each accessor of a union is the one generated from the declaration   *)
(* of its name by the earliest declaring member, mismatch or not.           *)
C9_FirstInsertionWins ==
  \A k \in DefsOfKind("Union") : Processed(k) =>
    \A j \in 1..Len(ImplOf(k).methods) :
      LET m == ImplOf(k).methods[j]
          d == FirstDeclaration(k, m.string_name)
      IN /\ m.returns = (IF graphql_scalar_type_to_rust_type(type_name(d.field_type), doc) = "Scalar"
                         THEN "bool" ELSE "QueryTrail")
         /\ (m.returns = "QueryTrail" => m.target = to_camel_case(type_name(d.field_type)))

(* A mismatch on country: the accessor is typed by the first member's       *)
(* Country although a later member says OtherCountry.                       *)
C9_Witness ==
  /\ pc = "done"
  /\ \E k \in DefsOfKind("Union") :
       /\ ErrorsFor(k, N_country) # {}
       /\ FirstDeclaringMember(k, N_country) # doc[k].types[1]
       /\ TargetOf(FirstDeclaringMember(k, N_country), N_country) = T_Country
       /\ \E j \in AccessorsFor(k, N_country) : ImplOf(k).methods[j].target = T_Country

(* The wire name of the field an accessor was generated from.               *)
WireNameOf(accessor_name) ==
  CHOOSE w \in AllFieldNames \cup {N_user} : to_snake_case(w) = accessor_name

Selected(on, wire_name) ==
  on.look_ahead # None /\ Append(on.look_ahead[1], wire_name) \in look_ahead_root

(* C7: on an absent link walk() returns None, a scalar accessor false and a *)
(* composite accessor a NotWalked trail with an absent link again; on a     *)
(* present link walk() returns the Walked trail of the same link, a scalar  *)
(* accessor tells whether the child of the field's wire name is selected,   *)
(* and a composite accessor links to that child if selected.                *)
C7_AbsentLinkPropagates ==
  last # None =>
    LET r == last[1] IN
      /\ r.op = "walk" =>
           /\ r.on.look_ahead = None => r.ret = None
           /\ r.on.look_ahead # None =>
                r.ret = Some(QueryTrail(r.on.look_ahead, r.on.node_type, "Walked"))
      /\ r.op = "scalar" => (r.ret <=> Selected(r.on, WireNameOf(r.name)))
      /\ r.op = "composite" =>
           /\ r.ret.walked = "NotWalked"
           /\ r.on.look_ahead = None => r.ret.look_ahead = None
           /\ r.ret.look_ahead # None <=> Selected(r.on, WireNameOf(r.name))
           /\ r.ret.look_ahead # None =>
                r.ret.look_ahead = Some(Append(r.on.look_ahead[1], WireNameOf(r.name)))

(* walk() has returned None on a trail of type User that a composite        *)
(* accessor made with an absent link.                                       *)
C7_Witness ==
  /\ last # None
  /\ last[1].op = "walk"
  /\ last[1].on.look_ahead = None
  /\ last[1].on.node_type = T_User
  /\ last[1].ret = None
  /\ trail = None

MethodNames(impl) == {<<impl.methods[j].name, impl.methods[j].string_name>> : j \in 1..Len(impl.methods)}

(* C8: a second run over the same document ends with the same diagnostic    *)
(* set and, per companion type, the same accessor names; the accessors of   *)
(* objects and interfaces are also in the same order.                       *)
C8_RunsAgree ==
  (pc = "done" /\ run = 2 /\ ~first[1].moved) =>
    /\ errors = first[1].errors
    /\ Len(tokens) = Len(first[1].tokens)
    /\ \A j \in 1..Len(TrailDefs) :
         /\ tokens[j + 1].name = first[1].tokens[j + 1].name
         /\ MethodNames(tokens[j + 1]) = MethodNames(first[1].tokens[j + 1])
         /\ doc[TrailDefs[j]].kind \in {"Object", "Interface"} =>
              tokens[j + 1].methods = first[1].tokens[j + 1].methods

(* Both runs have ended on a document whose union has two accessors, which  *)
(* the two runs emitted in different orders.                                *)
C8_Witness ==
  /\ pc = "done" /\ run = 2 /\ ~first[1].moved
  /\ \E j \in 1..Len(TrailDefs) :
       /\ doc[TrailDefs[j]].kind = "Union"
       /\ Len(tokens[j + 1].methods) = 2
       /\ tokens[j + 1].methods # first[1].tokens[j + 1].methods
  /\ errors # {}

RECURSIVE FieldsOfName(_, _)
FieldsOfName(n, k) ==
  IF k > Len(doc) THEN <<>>
  ELSE (IF doc[k].kind = "Object" /\ doc[k].name = n THEN doc[k].fields ELSE <<>>)
       \o FieldsOfName(n, k + 1)

ObjectNames == {doc[k].name : k \in DefsOfKind("Object")}

IndexComplete ==
  pc = "visit" =>
    /\ DOMAIN fields_map = {n \in ObjectNames : FieldsOfName(n, 1) # <<>>}
    /\ \A n \in DOMAIN fields_map : fields_map[n] = FieldsOfName(n, 1)

Unplaced(errs) == {[e EXCEPT !.position = 0] : e \in errs}

UnionImpl(d, toks) ==
  toks[1 + Cardinality({j \in 1..Len(d) : d[j].kind \in TrailKinds
                                           /\ j <= (CHOOSE u \in 1..Len(d) : d[u].kind = "Union")})]

MovedRunsAgree ==
  (pc = "done" /\ run = 2 /\ first[1].moved) =>
    /\ Unplaced(errors) = Unplaced(first[1].errors)
    /\ MethodNames(UnionImpl(doc, tokens)) = MethodNames(UnionImpl(first[1].doc, first[1].tokens))

OnlyObjectMembersCount ==
  \A k \in DefsOfKind("Union") : Processed(k) =>
    /\ \A e \in errors : {e.type_a, e.type_b} \subseteq ObjectNames
    /\ AccessorNames(k) \subseteq UNION {DeclaredNames(m, {"Object"}) : m \in Range(doc[k].types)}

(* C10: the index holds every object's fields from the first visit on and   *)
(* no visit changes it; a run with the union moved to another place of the  *)
(* document ends with the same diagnostics and the same union accessor      *)
(* names; members that are not indexed object types contribute nothing.     *)
C10_IndexBuiltOnce ==
  /\ [](IndexComplete /\ MovedRunsAgree /\ OnlyObjectMembersCount)
  /\ [][pc = "visit" => fields_map' = fields_map]_vars

(* The union was first in one run and last in the other, its members        *)
(* conflict, and one member is the interface.                               *)
C10_Witness ==
  /\ pc = "done" /\ run = 2 /\ first[1].moved
  /\ first[1].doc[1].kind = "Union"
  /\ doc[Len(doc)].kind = "Union"
  /\ T_Node \in Range(doc[1].types) \cup Range(doc[Len(doc)].types)
  /\ errors # {}
  /\ Unplaced(errors) = Unplaced(first[1].errors)
====
